---- MODULE Spec2Model ----
(***************************************************************************)
(* The scoring monitor of backend/scoring_monitor.py as a state machine.   *)
(*                                                                         *)
(* Representation of the numbers.  Time stamps are whole seconds.          *)
(* Processing times are kept in tenths of a second and credit scores in    *)
(* units of ten points, so that the statistics stay inside TLC's integers. *)
(* A mean is the exact rational <<numerator, denominator>>; a standard     *)
(* deviation is kept as the rational it is the square root of, and every   *)
(* comparison the code makes with it is made on the squares.  A credit     *)
(* score is tagged with its kind, because the payload is an arbitrary      *)
(* JSON value and the code stores whatever it finds.                       *)
(***************************************************************************)
EXTENDS Integers, Sequences, FiniteSets, TLC

VARIABLES
    clock,                  \* time.time()
    window_size,            \* ScoringMonitor.window_size
    alert_threshold,        \* ScoringMonitor.alert_threshold
    baseline_metrics,       \* ScoringMonitor.baseline_metrics
    recent_events,          \* deque(maxlen=window_size)
    recent_scores,          \* deque(maxlen=window_size)
    recent_response_times,  \* deque(maxlen=window_size)
    user_request_counts,    \* defaultdict(int)
    ip_request_counts,      \* defaultdict(int)
    alerts,                 \* the in-memory alert list
    db_events,              \* table scoring_events, in insertion order
    db_alerts,              \* table anomaly_alerts, in insertion order
    db_up,                  \* whether sqlite3.connect / execute succeed
    lock,                   \* ScoringMonitor.lock: its holder, or NoThread
    pc,                     \* per thread: where it is in log_scoring_event
    call,                   \* per thread: the event of its call in progress
    snap,                   \* per thread: the windows and counters its append left
    ingested,               \* history: every event appended so far, in order
    last,                   \* history: the last log_scoring_event call that ended
    reply,                  \* history: the query or cleanup call that ended last,
                            \* until an event is ingested, the clock moves or
                            \* the store fails or recovers
    cleaner,                \* the cleanup_old_data call in progress, if any
    reader,                 \* the get_monitoring_stats call in progress, if any
    monitor_instance,       \* the global _monitor_instance: NoMonitor is None
    monitors,               \* per ScoringMonitor constructed by get_monitor, in
                            \* order: the number of events logged to it
    getter,                 \* per thread: where it is in log_scoring_request
                            \* and the monitor get_monitor returned to it
    limiter,                \* KifaaRateLimiter.limiter: which class it is
    requests,               \* per key: the times of the requests recorded
    blocked_until,          \* InMemoryRateLimiter.blocked_until
    checked                 \* history: the last check_rate_limit call

vars == <<clock, window_size, alert_threshold, baseline_metrics, recent_events,
          recent_scores, recent_response_times, user_request_counts,
          ip_request_counts, alerts, db_events, db_alerts, db_up, lock, pc,
          call, snap, ingested, last, reply, cleaner, reader,
          monitor_instance, monitors, getter, limiter, requests, blocked_until,
          checked>>

\* The variables of a ScoringMonitor and of the calls made on it.
engine == <<clock, window_size, alert_threshold, baseline_metrics, recent_events,
            recent_scores, recent_response_times, user_request_counts,
            ip_request_counts, alerts, db_events, db_alerts, db_up, lock, pc,
            call, snap, ingested, last, reply, cleaner>>

\* The module-level state of scoring_monitor.py.
factory == <<monitor_instance, monitors, getter>>

\* The state of rate_limiter.py.
limiting == <<limiter, requests, blocked_until, checked>>

\* What the methods of ScoringMonitor other than get_monitoring_stats leave
\* alone, whatever they do.
rest == <<reader, factory, limiting>>

(***************************************************************************)
(* Program constants                                                       *)
(***************************************************************************)
Hour == 3600
Day == 24 * Hour
Week == 7 * Day
HoursPerWeek == 7 * 24
DefaultWindowSize == 1000
DefaultAlertThreshold == 10
BaselineLimit == 1000
MinResponseTimeSamples == 10
MinScoreSamples == 20
MinErrorRateEvents == 10
SpikeSigmas == 3
ShiftSigmas == 2
ShiftHighSigmas == 3
TrafficFactor == 5
ErrorStatus == 400
UserRepeatLimit == 50
IpRepeatLimit == 100

\* A processing time given in milliseconds, in tenths of a second.
Tenths(ms) == ms \div 100
\* A credit score given in points, in units of ten points.
Points(p) == p \div 10

(***************************************************************************)
(* Exact arithmetic for statistics.mean and statistics.stdev               *)
(***************************************************************************)
RECURSIVE Sum(_)
\* The sum of a sequence of numbers, taken by halves: the sequences are as
\* long as a thousand values.
Sum(s) ==
    IF s = <<>> THEN 0
    ELSE IF Len(s) = 1 THEN s[1]
    ELSE LET half == Len(s) \div 2
         IN  Sum(SubSeq(s, 1, half)) + Sum(SubSeq(s, half + 1, Len(s)))

SumSq(s) == Sum([i \in 1..Len(s) |-> s[i] * s[i]])

Whole(n) == <<n, 1>>

\* statistics.mean of a non-empty sequence of numbers.
Mean(s) == <<Sum(s), Len(s)>>

\* statistics.stdev of at least two numbers: the square root of the sample
\* variance (n * sum(x^2) - sum(x)^2) / (n * (n - 1)).
Stdev(s) ==
    [sqrt_of |-> <<Len(s) * SumSq(s) - Sum(s) * Sum(s), Len(s) * (Len(s) - 1)>>]

\* The number k as a standard deviation.
StdOf(k) == [sqrt_of |-> <<k * k, 1>>]

IsZeroRat(a) == a[1] = 0

\* a > b for rationals with positive denominators.
RatGT(a, b) == a[1] * b[2] > b[1] * a[2]

\* x > avg + k * sd
ExceedsBySigmas(x, avg, k, sd) ==
    LET D == x[1] * avg[2] - avg[1] * x[2]
        E == x[2] * avg[2]
    IN  /\ D > 0
        /\ D * D * sd.sqrt_of[2] > k * k * sd.sqrt_of[1] * E * E

\* abs(x - avg) > k * sd
DeviatesBySigmas(x, avg, k, sd) ==
    LET D == x[1] * avg[2] - avg[1] * x[2]
        E == x[2] * avg[2]
    IN  D * D * sd.sqrt_of[2] > k * k * sd.sqrt_of[1] * E * E

(***************************************************************************)
(* Payloads and events                                                     *)
(***************************************************************************)
\* A credit_score that is a number, and one that is not (a string, null).
Num(n) == [kind |-> "num", val |-> n]
NotANumber == [kind |-> "str", val |-> 0]
IsNumber(x) == x.kind = "num"

\* response_data: the empty dict, a dict without or with the key credit_score.
EmptyPayload == [keys |-> {}, credit_score |-> NotANumber]
ErrorPayload == [keys |-> {"error"}, credit_score |-> NotANumber]
ScorePayload(x) == [keys |-> {"credit_score"}, credit_score |-> x]

\* event.response_data and 'credit_score' in event.response_data
HasScore(e) ==
    e.response_data.keys # {} /\ "credit_score" \in e.response_data.keys

ScoringEvent(ts, user, ip, time, status, payload) ==
    [timestamp |-> ts, user_id |-> user, ip_address |-> ip,
     processing_time |-> time, status_code |-> status, response_data |-> payload]

AnomalyAlert(ts, type, sev) ==
    [timestamp |-> ts, alert_type |-> type, severity |-> sev]

\* One field of every row, in order.
Column(rows, f) == [i \in 1..Len(rows) |-> rows[i][f]]

\* The numbers of a sequence of scores.
Vals(scores) == [i \in 1..Len(scores) |-> scores[i].val]

\* statistics.mean raises TypeError on a value that is no number.
MeanRaises(scores) == \E i \in 1..Len(scores) : ~IsNumber(scores[i])

(***************************************************************************)
(* _load_baseline_metrics                                                  *)
(***************************************************************************)
DefaultBaseline(now) ==
    [avg_processing_time |-> Whole(Tenths(500)),
     std_processing_time |-> StdOf(Tenths(200)),
     avg_score           |-> Whole(Points(500)),
     std_score           |-> StdOf(Points(150)),
     requests_per_hour   |-> Whole(10),
     last_updated        |-> now]

\* The position of an oldest row.
OldestIndex(rows) ==
    CHOOSE i \in 1..Len(rows) :
        \A j \in 1..Len(rows) : rows[i].timestamp <= rows[j].timestamp

RECURSIVE NewestRows(_, _)
\* ORDER BY timestamp DESC LIMIT n: the n newest rows (their order plays no
\* part in the mean or the deviation).
NewestRows(rows, n) ==
    IF Len(rows) <= n THEN rows
    ELSE LET i == OldestIndex(rows)
         IN  NewestRows(SubSeq(rows, 1, i - 1) \o SubSeq(rows, i + 1, Len(rows)), n)

\* The query with >= in place of >.
BaselineRowsInclusive(rows, now) ==
    NewestRows(SelectSeq(rows, LAMBDA r : r.timestamp >= now - Week), BaselineLimit)

\* SELECT ... FROM scoring_events WHERE timestamp > ? ORDER BY timestamp DESC LIMIT 1000
BaselineRows(rows, now) ==
    NewestRows(SelectSeq(rows, LAMBDA r : r.timestamp > now - Week), BaselineLimit)

\* The credit_score of every row whose response_data has one.
RowScores(rows) ==
    LET scored == SelectSeq(rows, LAMBDA r : "credit_score" \in r.response_data.keys)
    IN  [i \in 1..Len(scored) |-> scored[i].response_data.credit_score]

LoadBaselineMetrics(rows, now, readable) ==
    LET events == BaselineRows(rows, now)
        times  == Column(events, "processing_time")
        scores == RowScores(events)
    IN  IF ~readable THEN DefaultBaseline(now)
        ELSE IF events = <<>> THEN DefaultBaseline(now)
        ELSE IF scores # <<>> /\ MeanRaises(scores) THEN DefaultBaseline(now)
        ELSE [avg_processing_time |-> Mean(times),
              std_processing_time |->
                  IF Len(times) > 1 THEN Stdev(times) ELSE StdOf(0),
              avg_score |->
                  IF scores # <<>> THEN Mean(Vals(scores)) ELSE Whole(Points(500)),
              std_score |->
                  IF Len(scores) > 1 THEN Stdev(Vals(scores)) ELSE StdOf(Points(100)),
              requests_per_hour |-> <<Len(events), HoursPerWeek>>,
              last_updated |-> now]

(***************************************************************************)
(* The sliding windows                                                     *)
(***************************************************************************)
\* A bounded append that refuses the new entry when full instead of
\* dropping the oldest.
PushWindowKeepOldest(window, x) ==
    IF Len(window) >= window_size THEN window ELSE Append(window, x)

\* deque(maxlen=window_size).append(x)
PushWindow(window, x) ==
    IF window_size = 0 THEN window
    ELSE IF Len(window) >= window_size THEN Tail(window) \o <<x>>
    ELSE Append(window, x)

\* log_scoring_event, "Add to sliding windows" and "Update request counters".
AppendEvents(e) == PushWindow(recent_events, e)

AppendScores(e) ==
    IF HasScore(e) THEN PushWindow(recent_scores, e.response_data.credit_score)
    ELSE recent_scores

AppendResponseTimes(e) == PushWindow(recent_response_times, e.processing_time)

\* A counter of the window: the events of the user among those it holds.
CountUserInWindow(e) ==
    [u \in DOMAIN user_request_counts |->
        Len(SelectSeq(AppendEvents(e), LAMBDA x : x.user_id = u))]

CountUser(e) == [user_request_counts EXCEPT ![e.user_id] = @ + 1]

CountIp(e) == [ip_request_counts EXCEPT ![e.ip_address] = @ + 1]

\* _persist_event: a failure is caught and logged.
PersistEvent(rows, e) == IF db_up THEN Append(rows, e) ELSE rows

(***************************************************************************)
(* The detectors.  Each yields the alerts it hands to _trigger_alert, in   *)
(* order, and whether it ended by raising an exception.                    *)
(***************************************************************************)
Quiet == [raised |-> <<>>, exc |-> FALSE]
Raises == [raised |-> <<>>, exc |-> TRUE]
Fires(alert) == [raised |-> <<alert>>, exc |-> FALSE]

\* Two steps in sequence: an exception in the first skips the second.
Then(a, b) ==
    IF a.exc THEN a ELSE [raised |-> a.raised \o b.raised, exc |-> b.exc]

\* _detect_response_time_anomalies; "spike_factor": avg_time / baseline_avg
\* is evaluated while the alert is built.
DetectResponseTime(times, now) ==
    IF Len(times) < MinResponseTimeSamples THEN Quiet
    ELSE IF ExceedsBySigmas(Mean(times), baseline_metrics.avg_processing_time,
                            SpikeSigmas, baseline_metrics.std_processing_time)
    THEN IF IsZeroRat(baseline_metrics.avg_processing_time) THEN Raises
         ELSE Fires(AnomalyAlert(now, "response_time_spike", "high"))
    ELSE Quiet

\* _detect_score_anomalies
DetectScore(scores, now) ==
    IF Len(scores) < MinScoreSamples THEN Quiet
    ELSE IF MeanRaises(scores) THEN Raises
    ELSE IF DeviatesBySigmas(Mean(Vals(scores)), baseline_metrics.avg_score,
                             ShiftSigmas, baseline_metrics.std_score)
    THEN Fires(AnomalyAlert(now, "score_distribution_shift",
             IF DeviatesBySigmas(Mean(Vals(scores)), baseline_metrics.avg_score,
                                 ShiftHighSigmas, baseline_metrics.std_score)
             THEN "high" ELSE "medium"))
    ELSE Quiet

\* [e for e in self.recent_events if e.timestamp > current_time - 3600]
RecentHour(events, now) == SelectSeq(events, LAMBDA e : e.timestamp > now - Hour)

\* _detect_request_pattern_anomalies; "spike_factor": current_rate / baseline_rate
DetectRequestPattern(events, now) ==
    LET current_rate  == Len(RecentHour(events, now))
        baseline_rate == baseline_metrics.requests_per_hour
    IN  IF RatGT(Whole(current_rate),
                 <<baseline_rate[1] * TrafficFactor, baseline_rate[2]>>)
        THEN IF IsZeroRat(baseline_rate) THEN Raises
             ELSE Fires(AnomalyAlert(now, "traffic_spike", "medium"))
        ELSE Quiet

\* _detect_error_rate_anomalies: error_rate > 0.1, and > 0.3 for critical
DetectErrorRate(events, now) ==
    LET recent == RecentHour(events, now)
        errors == SelectSeq(recent, LAMBDA e : e.status_code >= ErrorStatus)
        rate   == <<Len(errors), Len(recent)>>
    IN  IF Len(recent) < MinErrorRateEvents THEN Quiet
        ELSE IF RatGT(rate, <<1, 10>>)
        THEN Fires(AnomalyAlert(now, "high_error_rate",
                 IF RatGT(rate, <<3, 10>>) THEN "critical" ELSE "high"))
        ELSE Quiet

\* _detect_repeat_request_anomalies: the user check
DetectRepeatUser(e, users, now) ==
    IF users[e.user_id] > UserRepeatLimit
    THEN Fires(AnomalyAlert(now, "repeat_user_requests", "medium"))
    ELSE Quiet

\* _detect_repeat_request_anomalies: the IP check
DetectRepeatIp(e, ips, now) ==
    IF ips[e.ip_address] > IpRepeatLimit
    THEN Fires(AnomalyAlert(now, "repeat_ip_requests", "high"))
    ELSE Quiet

\* The detectors with the repeat-request checks ahead of the others.
RunDetectorsRepeatFirst(e, events, scores, times, users, ips, now) ==
    Then(DetectRepeatUser(e, users, now),
    Then(DetectRepeatIp(e, ips, now),
    Then(DetectResponseTime(times, now),
    Then(DetectScore(scores, now),
    Then(DetectRequestPattern(events, now),
         DetectErrorRate(events, now))))))

\* The five detectors in the order of _detect_anomalies.
RunDetectors(e, events, scores, times, users, ips, now) ==
    Then(DetectResponseTime(times, now),
    Then(DetectScore(scores, now),
    Then(DetectRequestPattern(events, now),
    Then(DetectErrorRate(events, now),
    Then(DetectRepeatUser(e, users, now),
         DetectRepeatIp(e, ips, now))))))

\* _detect_anomalies without its guard.
NeverBelowAlertThreshold(events) == FALSE

\* if len(self.recent_events) < self.alert_threshold: return
BelowAlertThreshold(events) == Len(events) < alert_threshold

\* _detect_anomalies on the windows and counters the append left.
DetectAnomalies(e, events, scores, times, users, ips, now) ==
    IF BelowAlertThreshold(events) THEN Quiet
    ELSE RunDetectors(e, events, scores, times, users, ips, now)

(***************************************************************************)
(* _trigger_alert                                                          *)
(***************************************************************************)
\* The pruning with >= in place of >.
KeepRecentInclusive(list, now) ==
    SelectSeq(list, LAMBDA a : a.timestamp >= now - Day)

\* self.alerts = [a for a in self.alerts if a.timestamp > cutoff_time]
KeepRecent(list, now) == SelectSeq(list, LAMBDA a : a.timestamp > now - Day)

\* The INSERT INTO anomaly_alerts; a failure is caught and logged.
PersistAlert(rows, alert) == IF db_up THEN Append(rows, alert) ELSE rows

\* An alert that is kept in memory and not written to the table.
TriggerAlertUnstored(st, alert, now) ==
    [alerts    |-> KeepRecent(Append(st.alerts, alert), now),
     db_alerts |-> st.db_alerts]

\* _trigger_alert on the pair of the in-memory list and the table.
TriggerAlert(st, alert, now) ==
    [alerts    |-> KeepRecent(Append(st.alerts, alert), now),
     db_alerts |-> PersistAlert(st.db_alerts, alert)]

RECURSIVE TriggerAll(_, _, _)
\* The _trigger_alert calls of one _detect_anomalies, in order.
TriggerAll(st, raised, now) ==
    IF raised = <<>> THEN st
    ELSE TriggerAll(TriggerAlert(st, Head(raised), now), Tail(raised), now)

(***************************************************************************)
(* Bounds of the model and the inputs drawn within them                    *)
(***************************************************************************)
MaxWindow == 2
MaxIngests == 3
MaxLoad == 52

Users == {"u1", "u2"}
Ips == {"ip1", "ip2"}
Threads == {"t1", "t2"}
NoThread == "none"

\* A request: user, address, processing time, status code, response payload.
Requests ==
    { <<"u1", "ip1", Tenths(500),  200, ScorePayload(Num(Points(500)))>>,
      <<"u2", "ip1", Tenths(1200), 200, ScorePayload(Num(Points(800)))>>,
      <<"u1", "ip2", Tenths(0),    500, ErrorPayload>>,
      <<"u2", "ip2", Tenths(500),  200, ScorePayload(NotANumber)>>,
      <<"u1", "ip1", Tenths(500),  400, EmptyPayload>> }

\* What the store may hold when the engine is constructed: nothing, an event
\* older than the seven days, one recent event, two recent events.
Stored(age, time, payload) ==
    ScoringEvent(0 - age, "u1", "ip1", time, 200, payload)

Histories ==
    { <<>>,
      <<Stored(Week, Tenths(300), ScorePayload(Num(Points(700))))>>,
      <<Stored(Hour, Tenths(0), EmptyPayload)>>,
      <<Stored(Day, Tenths(300), ScorePayload(Num(Points(400)))),
        Stored(Hour, Tenths(500), ScorePayload(Num(Points(600))))>> }

NoCall ==
    [valid |-> FALSE, event |-> ScoringEvent(0, "u1", "ip1", 0, 200, EmptyPayload),
     outcome |-> "returned", raised |-> <<>>, now |-> 0, store_up |-> TRUE]

\* What get_monitoring_stats reports, before any call: nothing.
NoStats ==
    [system_health |-> "none", total_events_tracked |-> 0,
     events_last_hour |-> 0, alerts_last_24h |-> 0]

\* What generate_weekly_summary reports, before any call: nothing.
NoSummary ==
    [error |-> FALSE, total_requests |-> 0, unique_users |-> 0,
     error_count |-> 0, p95_response_time |-> 0, total_scores_generated |-> 0,
     total_alerts |-> 0, critical_alerts |-> 0, high_alerts |-> 0]

\* No query or cleanup call has ended yet.  A call leaves its name, its
\* arguments, the clock and the number of events ingested when it was made,
\* how it ended and what it returned.
NoReply ==
    [op |-> "none", hours |-> 0, severity |-> "", days |-> 0, data |-> <<>>,
     percentile |-> 0, now |-> 0, seen |-> 0, store_up |-> TRUE,
     outcome |-> "returned", alerts |-> <<>>, stats |-> NoStats, value |-> 0,
     events_deleted |-> 0, alerts_deleted |-> 0,
     repeats |-> FALSE, before |-> [outcome |-> "returned", stats |-> NoStats],
     summary |-> NoSummary, error |-> "", between |-> {}]

\* No cleanup_old_data call is in progress.
NoCleanup == [pc |-> "idle", days |-> 0, cutoff |-> 0]

\* The windows and counters, as one value.
Memory ==
    [recent_events |-> recent_events, recent_scores |-> recent_scores,
     recent_response_times |-> recent_response_times,
     user_request_counts |-> user_request_counts,
     ip_request_counts |-> ip_request_counts]

(***************************************************************************)
(* The modules as they are once imported                                   *)
(***************************************************************************)
\* No get_monitoring_stats call is in progress.
NoReader == [pc |-> "idle", appended |-> 0]

\* _monitor_instance = None
NoMonitor == 0

\* No thread is in log_scoring_request and none holds a monitor.
NoGetter == [pc |-> "idle", got |-> NoMonitor]

\* The callers of the rate-limited endpoint: the claims of their tokens.
Callers ==
    { [sub |-> "u1", permissions |-> {}],
      [sub |-> "adm", permissions |-> {"admin"}] }

Endpoint == "score_user"

\* get_rate_limit_key: f"rate_limit:{user_id}:{endpoint}"
GetRateLimitKey(user_info, endpoint) == <<"rate_limit", user_info.sub, endpoint>>

\* f"{main_key}:burst"
BurstKey(main_key) == Append(main_key, "burst")

Keys ==
    { GetRateLimitKey(c, Endpoint) : c \in Callers } \cup
    { BurstKey(GetRateLimitKey(c, Endpoint)) : c \in Callers }

\* No check_rate_limit call has ended yet.
NoCheck ==
    [valid |-> FALSE, user |-> "", allowed |-> TRUE, rejected_by |-> "",
     remaining |-> 0, retry_after |-> 0, now |-> 0,
     before |-> [main |-> 0, burst |-> 0], after |-> [main |-> 0, burst |-> 0]]

\* scoring_monitor.py and rate_limiter.py once imported: no monitor yet, and
\* the rate limiter of the kind KifaaRateLimiter() found it could have, with
\* nothing recorded.
Imported(kind) ==
    /\ monitor_instance = NoMonitor
    /\ monitors = <<>>
    /\ getter = [t \in Threads |-> NoGetter]
    /\ limiter = kind
    /\ requests = [k \in Keys |-> <<>>]
    /\ blocked_until = [k \in Keys |-> 0]
    /\ checked = NoCheck

(***************************************************************************)
(* ScoringMonitor.__init__                                                 *)
(***************************************************************************)
\* The constructor on a store that can be read or, for the query of
\* _load_baseline_metrics and what follows, cannot.
NewMonitor(size, threshold, history, readable) ==
    /\ clock = 0
    /\ window_size = size
    /\ alert_threshold = threshold
    /\ db_events = history
    /\ db_alerts = <<>>
    /\ db_up = readable
    /\ baseline_metrics = LoadBaselineMetrics(history, 0, readable)
    /\ recent_events = <<>>
    /\ recent_scores = <<>>
    /\ recent_response_times = <<>>
    /\ user_request_counts = [u \in Users |-> 0]
    /\ ip_request_counts = [i \in Ips |-> 0]
    /\ alerts = <<>>
    /\ lock = NoThread
    /\ pc = [t \in Threads |-> "idle"]
    /\ call = [t \in Threads |-> NoCall.event]
    /\ snap = [t \in Threads |->
                 [recent_events |-> <<>>, recent_scores |-> <<>>,
                  recent_response_times |-> <<>>,
                  user_request_counts |-> [u \in Users |-> 0],
                  ip_request_counts |-> [i \in Ips |-> 0]]]
    /\ ingested = <<>>
    /\ last = NoCall
    /\ reply = NoReply
    /\ cleaner = NoCleanup
    /\ reader = NoReader

\* A monitor constructed directly, in a process whose rate limiter is the
\* in-memory one.
ConstructOn(size, threshold, history, readable) ==
    /\ NewMonitor(size, threshold, history, readable)
    /\ Imported("memory")

\* The constructor on a store that works.
Construct(size, threshold, history) == ConstructOn(size, threshold, history, TRUE)

(***************************************************************************)
(* log_scoring_request / log_scoring_event as one step                     *)
(***************************************************************************)
Idle == \A t \in Threads : pc[t] = "idle"

LogScoringEvent(e) ==
    LET events == AppendEvents(e)
        scores == AppendScores(e)
        times  == AppendResponseTimes(e)
        users  == CountUser(e)
        ips    == CountIp(e)
        found  == DetectAnomalies(e, events, scores, times, users, ips, clock)
        st     == TriggerAll([alerts |-> alerts, db_alerts |-> db_alerts],
                             found.raised, clock)
    IN  /\ Idle
        /\ recent_events' = events
        /\ recent_scores' = scores
        /\ recent_response_times' = times
        /\ user_request_counts' = users
        /\ ip_request_counts' = ips
        /\ db_events' = PersistEvent(db_events, e)
        /\ alerts' = st.alerts
        /\ db_alerts' = st.db_alerts
        /\ ingested' = Append(ingested, e)
        /\ last' = [valid |-> TRUE, event |-> e,
                    outcome |-> IF found.exc THEN "raised" ELSE "returned",
                    raised |-> found.raised, now |-> clock,
                    store_up |-> db_up]
        /\ UNCHANGED <<rest, clock, window_size, alert_threshold, baseline_metrics,
                       db_up, lock, pc, call, snap,
                   cleaner>>
        /\ reply' = NoReply

\* log_scoring_request: the event is stamped with time.time().
LogScoringRequest(r) ==
    LogScoringEvent(ScoringEvent(clock, r[1], r[2], r[3], r[4], r[5]))

Ingest ==
    /\ Len(ingested) < MaxIngests
    /\ \E r \in Requests : LogScoringRequest(r)

(***************************************************************************)
(* The environment: time passes, the store fails and recovers              *)
(***************************************************************************)
\* The instants the model looks at: the construction, an hour and a day later.
Instants == {0, Hour, Day}

Tick ==
    /\ \E t \in Instants :
         /\ t > clock
         /\ clock' = t
    /\ UNCHANGED <<rest, window_size, alert_threshold, baseline_metrics, recent_events,
                   recent_scores, recent_response_times, user_request_counts,
                   ip_request_counts, alerts, db_events, db_alerts, db_up, lock,
                   pc, call, snap, ingested, last,
                   cleaner>>
    /\ reply' = NoReply

StoreFlips ==
    /\ Idle
    /\ db_up' = ~db_up
    /\ UNCHANGED <<rest, clock, window_size, alert_threshold, baseline_metrics,
                   recent_events, recent_scores, recent_response_times,
                   user_request_counts, ip_request_counts, alerts, db_events,
                   db_alerts, lock, pc, call, snap, ingested, last,
                   cleaner>>
    /\ reply' = NoReply

(***************************************************************************)
(* Spec: engines of every small configuration, fed arbitrary requests      *)
(***************************************************************************)
Init ==
    \E size \in 0..MaxWindow, threshold \in 1..2,
       history \in Histories :
        Construct(size, threshold, history)

Next == Ingest \/ Tick

Spec == Init /\ [][Next]_vars

(***************************************************************************)
(* log_scoring_event step by step, for calls made by several threads       *)
(***************************************************************************)
\* A lock that never makes a caller wait.
CanAlwaysAcquire == TRUE

\* with self.lock: the caller goes on once no thread holds the lock.
CanAcquire == lock = NoThread

InProgress == {t \in Threads : pc[t] # "idle"}

\* log_scoring_request builds the event and calls log_scoring_event.
Begin(t) ==
    /\ pc[t] = "idle"
    /\ Len(ingested) + Cardinality(InProgress) < MaxIngests
    /\ \E r \in Requests :
         call' = [call EXCEPT ![t] = ScoringEvent(clock, r[1], r[2], r[3], r[4], r[5])]
    /\ pc' = [pc EXCEPT ![t] = "waiting"]
    /\ UNCHANGED <<rest, clock, window_size, alert_threshold, baseline_metrics,
                   recent_events, recent_scores, recent_response_times,
                   user_request_counts, ip_request_counts, alerts, db_events,
                   db_alerts, db_up, lock, snap, ingested, last,
                   reply, cleaner>>

Acquire(t) ==
    /\ pc[t] = "waiting"
    /\ CanAcquire
    /\ lock' = t
    /\ pc' = [pc EXCEPT ![t] = "locked"]
    /\ UNCHANGED <<rest, clock, window_size, alert_threshold, baseline_metrics,
                   recent_events, recent_scores, recent_response_times,
                   user_request_counts, ip_request_counts, alerts, db_events,
                   db_alerts, db_up, call, snap, ingested, last,
                   reply, cleaner>>

\* "Add to sliding windows" and "Update request counters"
AppendStep(t) ==
    /\ pc[t] = "locked"
    /\ recent_events' = AppendEvents(call[t])
    /\ recent_scores' = AppendScores(call[t])
    /\ recent_response_times' = AppendResponseTimes(call[t])
    /\ user_request_counts' = CountUser(call[t])
    /\ ip_request_counts' = CountIp(call[t])
    /\ ingested' = Append(ingested, call[t])
    /\ snap' = [snap EXCEPT ![t] = Memory']
    /\ pc' = [pc EXCEPT ![t] = "appended"]
    /\ UNCHANGED <<rest, clock, window_size, alert_threshold, baseline_metrics, alerts,
                   db_events, db_alerts, db_up, lock, call, last,
                   reply, cleaner>>

\* "Persist to database"
PersistStep(t) ==
    /\ pc[t] = "appended"
    /\ db_events' = PersistEvent(db_events, call[t])
    /\ pc' = [pc EXCEPT ![t] = "persisted"]
    /\ UNCHANGED <<rest, clock, window_size, alert_threshold, baseline_metrics,
                   recent_events, recent_scores, recent_response_times,
                   user_request_counts, ip_request_counts, alerts, db_alerts,
                   db_up, lock, call, snap, ingested, last,
                   reply, cleaner>>

\* "Perform anomaly detection", then the with block releases the lock,
\* whether _detect_anomalies returned or raised.
DetectStep(t) ==
    LET found == DetectAnomalies(call[t], recent_events, recent_scores,
                                 recent_response_times, user_request_counts,
                                 ip_request_counts, clock)
        st    == TriggerAll([alerts |-> alerts, db_alerts |-> db_alerts],
                            found.raised, clock)
    IN  /\ pc[t] = "persisted"
        /\ alerts' = st.alerts
        /\ db_alerts' = st.db_alerts
        /\ last' = [valid |-> TRUE, event |-> call[t],
                    outcome |-> IF found.exc THEN "raised" ELSE "returned",
                    raised |-> found.raised, now |-> clock,
                    store_up |-> db_up]
        /\ lock' = NoThread
        /\ pc' = [pc EXCEPT ![t] = "idle"]
        /\ UNCHANGED <<rest, clock, window_size, alert_threshold, baseline_metrics,
                       recent_events, recent_scores, recent_response_times,
                       user_request_counts, ip_request_counts, db_events, db_up,
                       call, snap, ingested,
                   reply, cleaner>>

(***************************************************************************)
(* SpecThreads: two threads calling log_scoring_request on one engine      *)
(***************************************************************************)
InitThreads ==
    \E size \in 1..MaxWindow :
        Construct(size, 1, <<Stored(Hour, Tenths(0), EmptyPayload)>>)

NextThreads ==
    \E t \in Threads :
        \/ Begin(t)
        \/ Acquire(t)
        \/ AppendStep(t)
        \/ PersistStep(t)
        \/ DetectStep(t)

SpecThreads == InitThreads /\ [][NextThreads]_vars

(***************************************************************************)
(* SpecLoad and SpecFresh: the engine get_monitor() constructs (window     *)
(* 1000, threshold 10) under a long run of requests of one user.  The run  *)
(* comes in phases: scored requests, then failed ones, then requests whose *)
(* credit_score is not a number.                                           *)
(***************************************************************************)
LoadKinds ==
    << <<"u1", "ip1", Tenths(500), 200, ScorePayload(Num(Points(900)))>>,
       <<"u1", "ip1", Tenths(500), 500, ErrorPayload>>,
       <<"u1", "ip1", Tenths(500), 200, ScorePayload(NotANumber)>> >>

\* The phase the run is in: that of the last request, the first at the start.
Phase ==
    IF ingested = <<>> THEN 1
    ELSE CHOOSE i \in 1..Len(LoadKinds) :
             /\ LoadKinds[i][4] = ingested[Len(ingested)].status_code
             /\ LoadKinds[i][5] = ingested[Len(ingested)].response_data

IngestLoad ==
    /\ Len(ingested) < MaxLoad
    /\ \E i \in 1..Len(LoadKinds) :
         /\ i >= Phase
         /\ LogScoringRequest(LoadKinds[i])

InitFresh == Construct(DefaultWindowSize, DefaultAlertThreshold, <<>>)

InitLoad ==
    \E history \in {<<>>, <<Stored(Hour, Tenths(0), EmptyPayload)>>} :
        Construct(DefaultWindowSize, DefaultAlertThreshold, history)

NextLoad == IngestLoad

SpecFresh == InitFresh /\ [][NextLoad]_vars

SpecLoad == InitLoad /\ [][NextLoad]_vars

(***************************************************************************)
(* Sequences: their last entries, the scores of events, their members      *)
(***************************************************************************)
LastN(s, n) == IF Len(s) <= n THEN s ELSE SubSeq(s, Len(s) - n + 1, Len(s))

RECURSIVE ScoresOf(_)
\* The credit_score of every event that carries one, in order.
ScoresOf(events) ==
    IF events = <<>> THEN <<>>
    ELSE (IF HasScore(Head(events))
          THEN <<Head(events).response_data.credit_score>> ELSE <<>>)
         \o ScoresOf(Tail(events))

Range(s) == {s[i] : i \in 1..Len(s)}

(***************************************************************************)
(* The queries: get_recent_alerts, GET /alerts, get_monitoring_stats       *)
(***************************************************************************)
WarningAlerts == 5

\* The look-back with >= in place of >.
GetRecentAlertsInclusive(list, hours, now) ==
    SelectSeq(list, LAMBDA a : a.timestamp >= now - hours * Hour)

\* get_recent_alerts: cutoff_time = time.time() - hours * 3600
GetRecentAlerts(list, hours, now) ==
    SelectSeq(list, LAMBDA a : a.timestamp > now - hours * Hour)

\* GET /alerts of monitor_endpoints: "if severity:" filters the list; the
\* request without a severity is the one with severity "".
AlertsEndpoint(list, hours, severity, now) ==
    LET found == GetRecentAlerts(list, hours, now)
    IN  IF severity # ""
        THEN SelectSeq(found, LAMBDA a : a.severity = severity)
        ELSE found

\* "if self.recent_scores:" statistics.mean(self.recent_scores) raises
\* TypeError on a value that is no number.
StatsRaises(scores) == scores # <<>> /\ MeanRaises(scores)

\* "Determine system health"
SystemHealth(list, now) ==
    LET recent == GetRecentAlerts(list, 1, now)
    IN  IF \E i \in 1..Len(recent) : recent[i].severity = "critical"
        THEN "critical"
        ELSE IF \E i \in 1..Len(recent) : recent[i].severity = "high"
        THEN "degraded"
        ELSE IF Len(recent) > WarningAlerts THEN "warning"
        ELSE "healthy"

\* get_monitoring_stats: how it ends and the health and counts it returns.
GetMonitoringStats(events, scores, list, now) ==
    IF StatsRaises(scores) THEN [outcome |-> "raised", stats |-> NoStats]
    ELSE [outcome |-> "returned",
          stats |-> [system_health        |-> SystemHealth(list, now),
                     total_events_tracked |-> Len(events),
                     events_last_hour     |-> Len(RecentHour(events, now)),
                     alerts_last_24h      |-> Len(GetRecentAlerts(list, 24, now))]]

\* A call of the given name made now.
Called(op) ==
    [NoReply EXCEPT !.op = op, !.now = clock, !.seen = Len(ingested),
                    !.store_up = db_up]

LookBacks == {1, 24, 7 * 24}
Severities == {"low", "medium", "high", "critical"}

AlertsQuery ==
    /\ \E hours \in LookBacks, severity \in Severities \cup {""} :
         reply' = [Called("alerts") EXCEPT
                      !.hours = hours, !.severity = severity,
                      !.alerts = AlertsEndpoint(alerts, hours, severity, clock)]
    /\ UNCHANGED <<rest, clock, window_size, alert_threshold, baseline_metrics,
                   recent_events, recent_scores, recent_response_times,
                   user_request_counts, ip_request_counts, alerts, db_events,
                   db_alerts, db_up, lock, pc, call, snap, ingested, last,
                   cleaner>>

\* A stats call that hands the alerts over and empties the list.
StatsDrainsAlerts ==
    /\ alerts' = <<>>
    /\ UNCHANGED <<rest, clock, window_size, alert_threshold, baseline_metrics,
                   recent_events, recent_scores, recent_response_times,
                   user_request_counts, ip_request_counts, db_events,
                   db_alerts, db_up, lock, pc, call, snap, ingested, last,
                   cleaner>>

\* A stats call that stamps the baseline it reports with the time of the call.
StatsRefreshesBaseline ==
    /\ baseline_metrics' = [baseline_metrics EXCEPT !.last_updated = clock]
    /\ UNCHANGED <<rest, clock, window_size, alert_threshold, recent_events,
                   recent_scores, recent_response_times, user_request_counts,
                   ip_request_counts, alerts, db_events, db_alerts, db_up, lock,
                   pc, call, snap, ingested, last, cleaner>>

\* get_monitoring_stats assigns to no attribute of the monitor.
StatsKeeps ==
    UNCHANGED <<rest, clock, window_size, alert_threshold, baseline_metrics,
                recent_events, recent_scores, recent_response_times,
                user_request_counts, ip_request_counts, alerts, db_events,
                db_alerts, db_up, lock, pc, call, snap, ingested, last,
                cleaner>>

\* The stats call; it notes whether it follows another stats call with the
\* clock unchanged and nothing ingested between them, and what that one gave.
StatsQuery ==
    LET got   == GetMonitoringStats(recent_events, recent_scores, alerts, clock)
        again == /\ reply.op = "stats"
                 /\ reply.now = clock
                 /\ reply.seen = Len(ingested)
    IN  /\ reply' = [Called("stats") EXCEPT
                        !.outcome = got.outcome, !.stats = got.stats,
                        !.repeats = again,
                        !.before = IF again
                                   THEN [outcome |-> reply.outcome,
                                         stats |-> reply.stats]
                                   ELSE NoReply.before]
        /\ StatsKeeps

(***************************************************************************)
(* SpecQueries: an engine that alerts from its first event on              *)
(* (alert_threshold = 1, a baseline of one stored event), asked for its    *)
(* alerts and its stats while requests arrive and time passes              *)
(***************************************************************************)
MaxQueryLoad == 10

\* The requests of this run: scored ones, then failed ones.
QueryKinds == SubSeq(LoadKinds, 1, 2)

IngestQueried ==
    /\ Len(ingested) < MaxQueryLoad
    /\ \E i \in 1..Len(QueryKinds) :
         /\ i >= Phase
         /\ LogScoringRequest(QueryKinds[i])

InitQueries ==
    Construct(DefaultWindowSize, 1, <<Stored(Hour, Tenths(500), EmptyPayload)>>)

NextQueries == IngestQueried \/ Tick \/ AlertsQuery \/ StatsQuery

SpecQueries == InitQueries /\ [][NextQueries]_vars

(***************************************************************************)
(* cleanup_old_data                                                        *)
(***************************************************************************)
\* cutoff_time = time.time() - days_to_keep * 24 * 3600
CleanupCutoff(days, now) == now - days * Day

\* The deletion without its WHERE clause: the whole table goes.
DeleteEverything(rows, cutoff) == <<>>

\* The deletion with <= in place of <.
DeleteOlderInclusive(rows, cutoff) ==
    SelectSeq(rows, LAMBDA r : r.timestamp > cutoff)

\* DELETE FROM ... WHERE timestamp < ?: the rows the table is left with.
DeleteOlder(rows, cutoff) == SelectSeq(rows, LAMBDA r : r.timestamp >= cutoff)

\* The two DELETE statements and the commit: one transaction of the store.
\* When the store fails the exception is caught and logged, and the
\* transaction leaves both tables as they were.
CleanupTables(cutoff) ==
    IF db_up
    THEN [events |-> DeleteOlder(db_events, cutoff),
          alerts |-> DeleteOlder(db_alerts, cutoff)]
    ELSE [events |-> db_events, alerts |-> db_alerts]

\* What the call leaves behind for the caller and in the log: rowcount twice.
CleanupReply(days, after) ==
    [Called("cleanup") EXCEPT
        !.days = days,
        !.events_deleted = Len(db_events) - Len(after.events),
        !.alerts_deleted = Len(db_alerts) - Len(after.alerts)]

\* cleanup_old_data as one step.
CleanupOldData(days) ==
    LET after == CleanupTables(CleanupCutoff(days, clock))
    IN  /\ cleaner.pc = "idle"
        /\ db_events' = after.events
        /\ db_alerts' = after.alerts
        /\ reply' = CleanupReply(days, after)
        /\ UNCHANGED <<rest, clock, window_size, alert_threshold, baseline_metrics,
                       recent_events, recent_scores, recent_response_times,
                       user_request_counts, ip_request_counts, alerts, db_up,
                       lock, pc, call, snap, ingested, last, cleaner>>

\* days_to_keep: nothing, a day, longer than any record is old.
KeepDays == {0, 1, 9999}

Cleanup == \E days \in KeepDays : CleanupOldData(days)

(***************************************************************************)
(* SpecKept: a small engine whose store is cleaned up and fails and        *)
(* recovers while requests arrive and time passes                          *)
(***************************************************************************)
MaxKept == 2

IngestKept ==
    /\ Len(ingested) < MaxKept
    /\ \E r \in Requests : LogScoringRequest(r)

InitKept == \E history \in Histories : Construct(MaxWindow, 1, history)

NextKept == IngestKept \/ Tick \/ StoreFlips \/ Cleanup

SpecKept == InitKept /\ [][NextKept]_vars

(***************************************************************************)
(* cleanup_old_data step by step, next to the calls of the threads.  It    *)
(* takes no lock of the monitor.  Its cutoff is computed when it starts;   *)
(* its two DELETE statements and the commit are one transaction of the     *)
(* store, which the store runs apart from every other write.               *)
(***************************************************************************)
CleanupBegin(days) ==
    /\ cleaner.pc = "idle"
    /\ cleaner' = [pc |-> "deleting", days |-> days,
                   cutoff |-> CleanupCutoff(days, clock)]
    /\ UNCHANGED <<rest, clock, window_size, alert_threshold, baseline_metrics,
                   recent_events, recent_scores, recent_response_times,
                   user_request_counts, ip_request_counts, alerts, db_events,
                   db_alerts, db_up, lock, pc, call, snap, ingested, last,
                   reply>>

CleanupCommit ==
    LET after == CleanupTables(cleaner.cutoff)
    IN  /\ cleaner.pc = "deleting"
        /\ db_events' = after.events
        /\ db_alerts' = after.alerts
        /\ reply' = CleanupReply(cleaner.days, after)
        /\ cleaner' = NoCleanup
        /\ UNCHANGED <<rest, clock, window_size, alert_threshold, baseline_metrics,
                       recent_events, recent_scores, recent_response_times,
                       user_request_counts, ip_request_counts, alerts, db_up,
                       lock, pc, call, snap, ingested, last>>

\* The clock moves while calls are in progress.
Later == Tick

(***************************************************************************)
(* SpecCleaned: two threads ingest while cleanup_old_data runs             *)
(***************************************************************************)
MaxCleaned == 2

\* The requests of this run: a scored one and a failed one.
CleanedRequests ==
    { <<"u1", "ip1", Tenths(500), 200, ScorePayload(Num(Points(500)))>>,
      <<"u2", "ip2", Tenths(500), 500, ErrorPayload>> }

\* log_scoring_request builds the event and calls log_scoring_event.
BeginCleaned(t) ==
    /\ pc[t] = "idle"
    /\ Len(ingested) + Cardinality(InProgress) < MaxCleaned
    /\ \E r \in CleanedRequests :
         call' = [call EXCEPT ![t] = ScoringEvent(clock, r[1], r[2], r[3], r[4], r[5])]
    /\ pc' = [pc EXCEPT ![t] = "waiting"]
    /\ UNCHANGED <<rest, clock, window_size, alert_threshold, baseline_metrics,
                   recent_events, recent_scores, recent_response_times,
                   user_request_counts, ip_request_counts, alerts, db_events,
                   db_alerts, db_up, lock, snap, ingested, last, reply,
                   cleaner>>

InitCleaned == Construct(MaxWindow, 1, <<Stored(Hour, Tenths(0), EmptyPayload)>>)

NextCleaned ==
    \/ \E t \in Threads :
         \/ BeginCleaned(t)
         \/ Acquire(t)
         \/ AppendStep(t)
         \/ PersistStep(t)
         \/ DetectStep(t)
    \/ CleanupBegin(0)
    \/ CleanupCommit
    \/ Later

SpecCleaned == InitCleaned /\ [][NextCleaned]_vars

(***************************************************************************)
(* SpecStore: the engine get_monitor() constructs, whose store fails at    *)
(* some point of a run of requests and stays down, and whose stats are     *)
(* read                                                                    *)
(***************************************************************************)
MaxStoreLoad == 20

IngestStore ==
    /\ Len(ingested) < MaxStoreLoad
    /\ \E i \in 1..Len(LoadKinds) :
         /\ i >= Phase
         /\ LogScoringRequest(LoadKinds[i])

\* sqlite3.connect or execute begins to raise.
StoreFails == db_up /\ StoreFlips

InitStore == InitLoad

NextStore == IngestStore \/ StoreFails \/ StatsQuery

SpecStore == InitStore /\ [][NextStore]_vars

(***************************************************************************)
(* SpecBaseline: the service restarts.  A new ScoringMonitor is            *)
(* constructed on the store the last one left, which it can read or not,   *)
(* and computes its baseline from it.                                      *)
(***************************************************************************)
MaxLife == 2
MaxRows == 3

\* The requests of this run: two scored ones and one whose score is no number.
BaselineRequests ==
    { <<"u1", "ip1", Tenths(500),  200, ScorePayload(Num(Points(500)))>>,
      <<"u2", "ip1", Tenths(1200), 200, ScorePayload(Num(Points(800)))>>,
      <<"u2", "ip2", Tenths(500),  200, ScorePayload(NotANumber)>> }

IngestBaseline ==
    /\ Len(ingested) < MaxLife
    /\ Len(db_events) < MaxRows
    /\ \E r \in BaselineRequests : LogScoringRequest(r)

\* __init__ of the new process: empty windows, counters and alert list, and
\* _load_baseline_metrics at the time of the restart.
Restart(readable) ==
    /\ Idle
    /\ db_up' = readable
    /\ baseline_metrics' = LoadBaselineMetrics(db_events, clock, readable)
    /\ recent_events' = <<>>
    /\ recent_scores' = <<>>
    /\ recent_response_times' = <<>>
    /\ user_request_counts' = [u \in Users |-> 0]
    /\ ip_request_counts' = [i \in Ips |-> 0]
    /\ alerts' = <<>>
    /\ ingested' = <<>>
    /\ last' = NoCall
    /\ reply' = NoReply
    /\ UNCHANGED <<rest, clock, window_size, alert_threshold, db_events, db_alerts,
                   lock, pc, call, snap, cleaner>>

InitBaseline ==
    \E history \in Histories, readable \in BOOLEAN :
        ConstructOn(MaxWindow, 1, history, readable)

NextBaseline == IngestBaseline \/ Tick \/ (\E readable \in BOOLEAN : Restart(readable))

SpecBaseline == InitBaseline /\ [][NextBaseline]_vars

(***************************************************************************)
(* _percentile                                                             *)
(***************************************************************************)
RECURSIVE Insert(_, _)
\* An ascending list with one more value put in its place.
Insert(sorted, x) ==
    IF sorted = <<>> THEN <<x>>
    ELSE IF x <= Head(sorted) THEN <<x>> \o sorted
    ELSE <<Head(sorted)>> \o Insert(Tail(sorted), x)

RECURSIVE Sorted(_)
\* sorted(data)
Sorted(data) ==
    IF data = <<>> THEN <<>> ELSE Insert(Sorted(Tail(data)), Head(data))

\* min(index, len(sorted_data) - 1)
Least(a, b) == IF a <= b THEN a ELSE b

\* The helper without its sort.
PercentileUnsorted(data, percentile) ==
    IF data = <<>> THEN 0
    ELSE data[Least((Len(data) * percentile) \div 100, Len(data) - 1) + 1]

\* _percentile: int(len(sorted_data) * percentile / 100) is the floor of the
\* quotient, the percentile being no negative number; Python counts the
\* places of the list from 0.
Percentile(data, percentile) ==
    IF data = <<>> THEN 0
    ELSE LET sorted_data == Sorted(data)
             index       == (Len(sorted_data) * percentile) \div 100
         IN  sorted_data[Least(index, Len(sorted_data) - 1) + 1]

(***************************************************************************)
(* SpecPercentile: the helper applied to short lists of every order and to *)
(* lists of ten samples                                                    *)
(***************************************************************************)
MaxSamples == 3

\* Processing times, in tenths of a second.
SampleValues == {1, 5, 12}

\* 0.1 s to 1.0 s in ascending, in descending and in no order.
TenSamples ==
    { <<1, 2, 3, 4, 5, 6, 7, 8, 9, 10>>,
      <<10, 9, 8, 7, 6, 5, 4, 3, 2, 1>>,
      <<4, 10, 1, 7, 3, 9, 2, 8, 6, 5>> }

Samples ==
    TenSamples \cup
    UNION { [1..n -> SampleValues] : n \in 1..MaxSamples }

Percentiles == {0, 1, 25, 50, 95, 99, 100}

PercentileCall ==
    /\ \E data \in Samples, percentile \in Percentiles :
         reply' = [Called("percentile") EXCEPT
                      !.data = data, !.percentile = percentile,
                      !.value = Percentile(data, percentile)]
    /\ UNCHANGED <<rest, clock, window_size, alert_threshold, baseline_metrics,
                   recent_events, recent_scores, recent_response_times,
                   user_request_counts, ip_request_counts, alerts, db_events,
                   db_alerts, db_up, lock, pc, call, snap, ingested, last,
                   cleaner>>

InitPercentile == InitFresh

NextPercentile == PercentileCall

SpecPercentile == InitPercentile /\ [][NextPercentile]_vars

(***************************************************************************)
(* generate_weekly_summary                                                 *)
(***************************************************************************)
\* WHERE timestamp BETWEEN ? AND ?: both ends belong to the week.
WeekRows(rows, now) ==
    SelectSeq(rows, LAMBDA r : r.timestamp >= now - Week /\ r.timestamp <= now)

\* The rows of the table with the given severity.
OfSeverity(rows, severity) == SelectSeq(rows, LAMBDA a : a.severity = severity)

\* generate_weekly_summary: the whole body is in a try block, and whatever
\* is raised (by the store, or by statistics.mean on a score that is no
\* number) is answered with {"error": ...}.
GenerateWeeklySummary(rows, alert_rows, now, readable) ==
    LET events == WeekRows(rows, now)
        found  == WeekRows(alert_rows, now)
        times  == Column(events, "processing_time")
        scores == RowScores(events)
    IN  IF ~readable \/ (scores # <<>> /\ MeanRaises(scores))
        THEN [NoSummary EXCEPT !.error = TRUE]
        ELSE [error                  |-> FALSE,
              total_requests         |-> Len(events),
              unique_users           |->
                  Cardinality({events[i].user_id : i \in 1..Len(events)}),
              error_count            |->
                  Len(SelectSeq(events, LAMBDA e : e.status_code >= ErrorStatus)),
              p95_response_time      |-> Percentile(times, 95),
              total_scores_generated |-> Len(scores),
              total_alerts           |-> Len(found),
              critical_alerts        |-> Len(OfSeverity(found, "critical")),
              high_alerts            |-> Len(OfSeverity(found, "high"))]

\* A summary that empties the counters of the actors once it has reported.
SummaryResetsCounters ==
    /\ user_request_counts' = [u \in Users |-> 0]
    /\ ip_request_counts' = [i \in Ips |-> 0]
    /\ UNCHANGED <<rest, clock, window_size, alert_threshold, baseline_metrics,
                   recent_events, recent_scores, recent_response_times, alerts,
                   db_events, db_alerts, db_up, lock, pc, call, snap, ingested,
                   last, cleaner>>

\* generate_weekly_summary assigns to no attribute of the monitor and writes
\* to no table.
SummaryKeeps ==
    UNCHANGED <<rest, clock, window_size, alert_threshold, baseline_metrics,
                recent_events, recent_scores, recent_response_times,
                user_request_counts, ip_request_counts, alerts, db_events,
                db_alerts, db_up, lock, pc, call, snap, ingested, last,
                cleaner>>

WeeklySummaryQuery ==
    /\ reply' = [Called("summary") EXCEPT
                    !.summary = GenerateWeeklySummary(db_events, db_alerts,
                                                      clock, db_up)]
    /\ SummaryKeeps

(***************************************************************************)
(* SpecService: a small engine under every operation of the service:       *)
(* requests arrive, time passes, the three queries are made, the store is  *)
(* cleaned up, and the process restarts                                    *)
(***************************************************************************)
MaxService == 2

\* The requests of this run are a scored one and a failed one, and the table
\* of the events takes one while it holds fewer than MaxService rows.
IngestService ==
    /\ Len(ingested) < MaxService
    /\ Len(db_events) < MaxService
    /\ \E r \in CleanedRequests : LogScoringRequest(r)

\* The process restarts on a store that works, once in an instant at most.
RestartService ==
    /\ baseline_metrics.last_updated < clock
    /\ Restart(TRUE)

InitService == \E history \in Histories : Construct(1, 1, history)

NextService ==
    \/ IngestService
    \/ Tick
    \/ AlertsQuery
    \/ StatsQuery
    \/ WeeklySummaryQuery
    \/ Cleanup
    \/ RestartService

SpecService == InitService /\ [][NextService]_vars

(***************************************************************************)
(* SpecHistory: the engine get_monitor() constructs, on stores that hold   *)
(* no event, a few, and as many as the query of _load_baseline_metrics     *)
(* takes and one more; requests arrive, time passes, the process restarts  *)
(***************************************************************************)
\* n events of the last hour before the construction, none with a score.
ManyRows(n) == [i \in 1..n |-> Stored(Hour, Tenths(500), EmptyPayload)]

HistorySizes == {0, 1, 2, BaselineLimit - 1, BaselineLimit, BaselineLimit + 1}

IngestHistory ==
    /\ Len(ingested) < MaxLife
    /\ \E r \in CleanedRequests : LogScoringRequest(r)

InitHistory ==
    \E n \in HistorySizes :
        Construct(DefaultWindowSize, DefaultAlertThreshold, ManyRows(n))

NextHistory == IngestHistory \/ Tick \/ RestartService

SpecHistory == InitHistory /\ [][NextHistory]_vars

(***************************************************************************)
(* get_monitoring_stats step by step, next to the calls of the threads.    *)
(* It takes no lock.  It first walks recent_events (the list               *)
(* comprehension of the last hour); a deque that is appended to while it   *)
(* is walked makes the next step of the walk raise RuntimeError.  What it  *)
(* reads after the walk is read here in one step.                          *)
(***************************************************************************)
\* The event window and the score window as they were before the last append.
BeforeAppend ==
    LET earlier == SubSeq(ingested, 1, Len(ingested) - 1)
    IN  [events |-> LastN(earlier, window_size),
         scores |-> LastN(ScoresOf(earlier), window_size)]

\* What get_monitoring_stats gives in the states between two whole
\* log_scoring_event calls that are nearest to the present one: the present
\* state when no call is between its append and its end, else the state
\* before that call's append and the state its detection will leave.
WholeStates ==
    LET mid == {t \in Threads : pc[t] \in {"appended", "persisted"}}
    IN  IF mid = {}
        THEN {GetMonitoringStats(recent_events, recent_scores, alerts, clock)}
        ELSE LET t     == CHOOSE u \in mid : TRUE
                 found == DetectAnomalies(call[t], recent_events, recent_scores,
                                          recent_response_times,
                                          user_request_counts, ip_request_counts,
                                          clock)
                 st    == TriggerAll([alerts |-> alerts, db_alerts |-> db_alerts],
                                     found.raised, clock)
             IN  {GetMonitoringStats(BeforeAppend.events, BeforeAppend.scores,
                                     alerts, clock),
                  GetMonitoringStats(recent_events, recent_scores, st.alerts,
                                     clock)}

\* The call starts to walk recent_events.
StatsBegin ==
    /\ reader.pc = "idle"
    /\ reader' = [pc |-> "iterating", appended |-> Len(ingested)]
    /\ UNCHANGED <<engine, factory, limiting>>

\* The walk ends, by RuntimeError if the deque was appended to meanwhile;
\* else the call reads the rest and returns, or raises the TypeError of
\* statistics.mean.
StatsRead ==
    LET got == GetMonitoringStats(recent_events, recent_scores, alerts, clock)
    IN  /\ reader.pc = "iterating"
        /\ reader' = NoReader
        /\ reply' = IF Len(ingested) # reader.appended
                    THEN [Called("stats") EXCEPT
                             !.outcome = "raised", !.error = "RuntimeError"]
                    ELSE [Called("stats") EXCEPT
                             !.outcome = got.outcome, !.stats = got.stats,
                             !.error = IF got.outcome = "raised"
                                       THEN "TypeError" ELSE "",
                             !.between = WholeStates]
        /\ UNCHANGED <<factory, limiting, clock, window_size, alert_threshold,
                       baseline_metrics, recent_events, recent_scores,
                       recent_response_times, user_request_counts,
                       ip_request_counts, alerts, db_events, db_alerts, db_up,
                       lock, pc, call, snap, ingested, last, cleaner>>

(***************************************************************************)
(* SpecRead: two threads ingest while a third reads the stats              *)
(***************************************************************************)
InitRead == InitCleaned

NextRead ==
    \/ \E t \in Threads :
         \/ BeginCleaned(t)
         \/ Acquire(t)
         \/ AppendStep(t)
         \/ PersistStep(t)
         \/ DetectStep(t)
    \/ StatsBegin
    \/ StatsRead

SpecRead == InitRead /\ [][NextRead]_vars

(***************************************************************************)
(* get_monitor and log_scoring_request, statement by statement             *)
(***************************************************************************)
MaxLogged == 3

\* The log_scoring_request calls begun so far: those that ended and those
\* in progress.
Logged == Sum(monitors) + Cardinality({t \in Threads : getter[t].pc # "idle"})

\* log_scoring_request builds its event and enters get_monitor.
LogBegin(t) ==
    /\ getter[t].pc = "idle"
    /\ Logged < MaxLogged
    /\ getter' = [getter EXCEPT ![t].pc = "called"]
    /\ UNCHANGED <<engine, reader, monitor_instance, monitors, limiting>>

\* if _monitor_instance is None:
GetCheck(t) ==
    /\ getter[t].pc = "called"
    /\ getter' = [getter EXCEPT ![t].pc =
                     IF monitor_instance = NoMonitor THEN "constructing"
                                                     ELSE "returning"]
    /\ UNCHANGED <<engine, reader, monitor_instance, monitors, limiting>>

\* _monitor_instance = ScoringMonitor(): one more monitor, with nothing
\* logged to it, and the global names it.
GetConstruct(t) ==
    /\ getter[t].pc = "constructing"
    /\ monitors' = Append(monitors, 0)
    /\ monitor_instance' = Len(monitors) + 1
    /\ getter' = [getter EXCEPT ![t].pc = "returning"]
    /\ UNCHANGED <<engine, reader, limiting>>

\* return _monitor_instance: the global as it is now.
GetReturn(t) ==
    /\ getter[t].pc = "returning"
    /\ getter' = [getter EXCEPT ![t] = [pc |-> "logging", got |-> monitor_instance]]
    /\ UNCHANGED <<engine, reader, monitor_instance, monitors, limiting>>

\* monitor.log_scoring_event(event), on the monitor get_monitor returned.
LogTo(t) ==
    /\ getter[t].pc = "logging"
    /\ monitors' = [monitors EXCEPT ![getter[t].got] = @ + 1]
    /\ getter' = [getter EXCEPT ![t].pc = "idle"]
    /\ UNCHANGED <<engine, reader, monitor_instance, limiting>>

InitMonitors == InitFresh

NextMonitors ==
    \E t \in Threads :
        \/ LogBegin(t)
        \/ GetCheck(t)
        \/ GetConstruct(t)
        \/ GetReturn(t)
        \/ LogTo(t)

SpecMonitors == InitMonitors /\ [][NextMonitors]_vars

(***************************************************************************)
(* rate_limiter.py: KifaaRateLimiter.check_rate_limit                      *)
(***************************************************************************)
\* KifaaRateLimiter.rate_limits
RateLimits ==
    [default |-> [limit |-> 100, window |-> 3600],
     premium |-> [limit |-> 1000, window |-> 3600],
     admin |-> [limit |-> 10000, window |-> 3600],
     burst |-> [limit |-> 10, window |-> 60]]

GetUserTier(user_info) ==
    IF "admin" \in user_info.permissions \/ "logs" \in user_info.permissions
    THEN "admin"
    ELSE IF "premium" \in user_info.permissions THEN "premium" ELSE "default"

\* while self.requests[key] and self.requests[key][0] <= window_start: popleft()
RECURSIVE PopOld(_, _)
PopOld(q, window_start) ==
    IF q # <<>> /\ Head(q) <= window_start
    THEN PopOld(Tail(q), window_start)
    ELSE q

\* InMemoryRateLimiter.is_allowed: the answer, and the requests and blocks it
\* leaves.  A key that blocked_until does not hold is blocked until 0.
InMemoryIsAllowed(reqs, blocked, key, limit, window_seconds, now) ==
    IF now < blocked[key]
    THEN [allowed |-> FALSE, remaining |-> 0, retry_after |-> blocked[key] - now,
          requests |-> reqs, blocked_until |-> blocked]
    ELSE LET cleaned == PopOld(reqs[key], now - window_seconds)
             current_count == Len(cleaned)
         IN  IF current_count >= limit
             THEN [allowed |-> FALSE, remaining |-> 0,
                   retry_after |-> window_seconds,
                   requests |-> [reqs EXCEPT ![key] = cleaned],
                   blocked_until |-> [blocked EXCEPT ![key] = now + window_seconds]]
             ELSE [allowed |-> TRUE, remaining |-> limit - (current_count + 1),
                   retry_after |-> 0,
                   requests |-> [reqs EXCEPT ![key] = Append(cleaned, now)],
                   blocked_until |-> blocked]

\* zremrangebyscore(key, 0, window_start) on a sorted set kept in score order.
ZRemRangeByScore(z, window_start) == SelectSeq(z, LAMBDA t : t > window_start)

\* zrem(key, str(now)) of the member the same call added: it is the last one.
\* Two calls never read the same time.time(), so every member is its own.
ZRemAdded(z) == SubSeq(z, 1, Len(z) - 1)

\* RedisRateLimiter.is_allowed on a connected client; answering says whether
\* the commands go through or raise, and then the request is allowed.
RedisIsAllowed(reqs, blocked, key, limit, window_seconds, now, answering) ==
    IF ~answering
    THEN [allowed |-> TRUE, remaining |-> limit - 1, retry_after |-> 0,
          requests |-> reqs, blocked_until |-> blocked]
    ELSE LET kept == ZRemRangeByScore(reqs[key], now - window_seconds)
             current_count == Len(kept)
             added == Append(kept, now)
         IN  IF current_count >= limit
             THEN [allowed |-> FALSE, remaining |-> 0,
                   retry_after |-> window_seconds,
                   requests |-> [reqs EXCEPT ![key] = ZRemAdded(added)],
                   blocked_until |-> blocked]
             ELSE [allowed |-> TRUE, remaining |-> limit - (current_count + 1),
                   retry_after |-> 0,
                   requests |-> [reqs EXCEPT ![key] = added],
                   blocked_until |-> blocked]

\* self.limiter.is_allowed: RedisRateLimiter on a client that connected, or
\* the in-memory limiter it falls back to and KifaaRateLimiter(False) uses.
IsAllowed(kind, reqs, blocked, key, limit, window_seconds, now, answering) ==
    IF kind = "redis"
    THEN RedisIsAllowed(reqs, blocked, key, limit, window_seconds, now, answering)
    ELSE InMemoryIsAllowed(reqs, blocked, key, limit, window_seconds, now)

\* The requests recorded for a key that are inside its window at an instant.
InWindow(reqs, key, window_seconds, now) ==
    Len(SelectSeq(reqs[key], LAMBDA t : t > now - window_seconds))

\* The recorded counts of a caller's main window and burst window.
Counts(reqs, main_key, rate_config, now) ==
    [main |-> InWindow(reqs, main_key, rate_config.window, now),
     burst |-> InWindow(reqs, BurstKey(main_key), RateLimits.burst.window, now)]

\* check_rate_limit: the main limit of the tier, then, except for the admin
\* tier and only when the main limit allowed, the burst limit.
CheckRateLimit(user_info, endpoint, main_answering, burst_answering) ==
    LET user_tier == GetUserTier(user_info)
        rate_config == RateLimits[user_tier]
        main_key == GetRateLimitKey(user_info, endpoint)
        main == IsAllowed(limiter, requests, blocked_until, main_key,
                          rate_config.limit, rate_config.window, clock,
                          main_answering)
        burst_config == RateLimits.burst
        burst == IsAllowed(limiter, main.requests, main.blocked_until,
                           BurstKey(main_key), burst_config.limit,
                           burst_config.window, clock, burst_answering)
        bursting == main.allowed /\ user_tier # "admin"
        info == IF bursting /\ ~burst.allowed THEN burst ELSE main
        left == IF bursting THEN burst ELSE main
    IN  /\ requests' = left.requests
        /\ blocked_until' = left.blocked_until
        /\ checked' = [valid |-> TRUE, user |-> user_info.sub,
                       allowed |-> info.allowed,
                       rejected_by |-> IF ~main.allowed THEN "main"
                                       ELSE IF ~info.allowed THEN "burst" ELSE "",
                       remaining |-> info.remaining,
                       retry_after |-> info.retry_after,
                       now |-> clock,
                       before |-> Counts(requests, main_key, rate_config, clock),
                       after |-> Counts(left.requests, main_key, rate_config, clock)]
        /\ UNCHANGED <<engine, reader, factory, limiter>>

\* The admin tier's limit is out of reach here: its recorded requests are
\* bounded instead.
MaxAdminRequests == 2

\* A request to the rate-limited endpoint.  Only Redis can fail to answer,
\* and it does so for the whole of a request or not at all.
Request ==
    \E user_info \in Callers, answering \in BOOLEAN :
        /\ limiter = "memory" => answering
        /\ GetUserTier(user_info) = "admin" =>
               Len(requests[GetRateLimitKey(user_info, Endpoint)]) < MaxAdminRequests
        /\ CheckRateLimit(user_info, Endpoint, answering, answering)

\* The process with RedisRateLimiter connected, or fallen back to memory.
InitLimiter ==
    \E kind \in {"memory", "redis"} :
        /\ NewMonitor(DefaultWindowSize, DefaultAlertThreshold, <<>>, TRUE)
        /\ Imported(kind)

NextLimiter == Request \/ Tick

SpecLimiter == InitLimiter /\ [][NextLimiter]_vars

(***************************************************************************)
(* Properties                                                              *)
(***************************************************************************)
Raised(type) == \E i \in 1..Len(last.raised) : last.raised[i].alert_type = type

RaisedWith(type, sev) ==
    \E i \in 1..Len(last.raised) :
        last.raised[i].alert_type = type /\ last.raised[i].severity = sev

\* C1: each of the three windows holds at most window_size entries and is
\* exactly the last window_size values appended to it, in arrival order.
C1_WindowsKeepLastN ==
    /\ Len(recent_events) <= window_size
    /\ Len(recent_scores) <= window_size
    /\ Len(recent_response_times) <= window_size
    /\ recent_events = LastN(ingested, window_size)
    /\ recent_scores = LastN(ScoresOf(ingested), window_size)
    /\ recent_response_times =
           LastN(Column(ingested, "processing_time"), window_size)

\* C1 witness: a full window has dropped its oldest entry, which differed
\* from the one that is now first.
C1_Evicted ==
    /\ window_size > 0
    /\ Len(ingested) > window_size
    /\ Len(recent_events) = window_size
    /\ ingested[1] # recent_events[1]
    /\ Len(ScoresOf(ingested)) > window_size

\* C7 as claimed: a call that leaves fewer than 10 events in the events
\* window raises no alert.
C7_NoAlertBelowTen ==
    (last.valid /\ Len(recent_events) < DefaultAlertThreshold)
        => last.raised = <<>>

\* C7 amended: a call that leaves fewer than alert_threshold events in the
\* events window raises no alert, whatever the baseline and the events.
C7_NoAlertBelowThreshold ==
    (last.valid /\ Len(recent_events) < alert_threshold) => last.raised = <<>>

\* C7 witness: a call ended below the threshold although the traffic of the
\* last hour exceeds five times the baseline rate.
C7_GuardHeldBack ==
    /\ last.valid
    /\ clock = last.now
    /\ 0 < Len(recent_events)
    /\ Len(recent_events) < alert_threshold
    /\ DetectRequestPattern(recent_events, clock).raised # <<>>

\* C10, the list: after a call that raised alerts, each of them is in the
\* in-memory list and no entry of the list is 24 hours old or older.
C10_ListAfterRaise ==
    (last.valid /\ last.raised # <<>>) =>
        /\ \A i \in 1..Len(last.raised) : last.raised[i] \in Range(alerts)
        /\ \A i \in 1..Len(alerts) : alerts[i].timestamp > last.now - Day

\* C10, the table: a call adds the alerts it raised to the stored alerts and
\* removes none of them.
C10_TableAfterRaise ==
    ingested' # ingested =>
        /\ Len(db_alerts') >= Len(db_alerts)
        /\ SubSeq(db_alerts', 1, Len(db_alerts)) = db_alerts
        /\ db_up => db_alerts' = db_alerts \o last'.raised

\* C10: on return from _trigger_alert the in-memory list holds the new alert
\* and nothing with timestamp <= now - 24 h, and the stored alerts lose nothing.
C10_RaiseKeepsNewPrunesOld == []C10_ListAfterRaise /\ [][C10_TableAfterRaise]_vars

\* C10 witness: a call raised an alert and an older alert, still stored, has
\* been dropped from the in-memory list.
C10_OldAlertPruned ==
    /\ last.valid
    /\ last.raised # <<>>
    /\ \E i \in 1..Len(db_alerts) :
          /\ db_alerts[i].timestamp <= last.now - Day
          /\ db_alerts[i] \notin Range(alerts)

\* C3: between a call's own append and the end of its detection no other
\* call changes a window or a counter: what the detectors evaluate is what
\* the call's append left.
C3_DetectorsSeeOwnAppend ==
    \A t \in Threads : pc[t] \in {"appended", "persisted"} => snap[t] = Memory

\* C3 witness: one thread is between its append and its detection while the
\* other has an event to ingest and waits for the lock.
C3_SecondCallWaits ==
    \E t, u \in Threads :
        /\ t # u
        /\ pc[t] = "persisted"
        /\ pc[u] = "waiting"
        /\ lock = t

\* C2: every log_scoring_event call returns normally.
C2_IngestNeverRaises == last.valid => last.outcome = "returned"

\* C4: a call that leaves at least 10 samples in the latency window raises
\* response_time_spike, severity high, if and only if the mean of the window
\* is greater than avg_processing_time + 3 * std_processing_time.
C4_SpikeIffAboveThreshold ==
    (last.valid /\ Len(recent_response_times) >= 10) =>
        (RaisedWith("response_time_spike", "high") <=>
            ExceedsBySigmas(Mean(recent_response_times),
                            baseline_metrics.avg_processing_time, 3,
                            baseline_metrics.std_processing_time))

\* C5: with at least 10 events of the trailing hour in the window, the call
\* raises high_error_rate with severity high for an error rate in
\* (0.10, 0.30], with severity critical above 0.30, and not at all at or
\* below 0.10.
C5_ErrorRateSeverity ==
    LET recent == RecentHour(recent_events, last.now)
        errors == SelectSeq(recent, LAMBDA e : e.status_code >= 400)
        rate   == <<Len(errors), Len(recent)>>
    IN  (last.valid /\ Len(recent) >= 10) =>
            /\ (RatGT(rate, <<1, 10>>) /\ ~RatGT(rate, <<3, 10>>))
                   => RaisedWith("high_error_rate", "high")
            /\ RatGT(rate, <<3, 10>>) => RaisedWith("high_error_rate", "critical")
            /\ ~RatGT(rate, <<1, 10>>) => ~Raised("high_error_rate")

\* C6: a call that leaves at least 20 (numeric) samples in the score window
\* raises score_distribution_shift exactly when the mean deviates from
\* avg_score by more than 2 * std_score: medium up to 3 * std_score, high above.
C6_ShiftSeverity ==
    LET mean == Mean(Vals(recent_scores))
        over(k) == DeviatesBySigmas(mean, baseline_metrics.avg_score, k,
                                    baseline_metrics.std_score)
    IN  (last.valid /\ Len(recent_scores) >= 20 /\ ~MeanRaises(recent_scores)) =>
            /\ (over(2) /\ ~over(3)) => RaisedWith("score_distribution_shift", "medium")
            /\ over(3) => RaisedWith("score_distribution_shift", "high")
            /\ ~over(2) => ~Raised("score_distribution_shift")

\* C8: a call raises repeat_user_requests (medium) exactly when the counter
\* of its user_id, this event included, is above 50, and repeat_ip_requests
\* (high) exactly when the counter of its address is above 100.
C8_RepeatAlertsIffOverLimit ==
    last.valid =>
        /\ RaisedWith("repeat_user_requests", "medium")
               <=> user_request_counts[last.event.user_id] > 50
        /\ RaisedWith("repeat_ip_requests", "high")
               <=> ip_request_counts[last.event.ip_address] > 100

\* C9: a call raises traffic_spike (medium) if and only if the events of the
\* window with timestamp > now - 3600 number more than 5 * requests_per_hour.
C9_TrafficSpikeIffOverRate ==
    last.valid =>
        (RaisedWith("traffic_spike", "medium") <=>
            RatGT(Whole(Len(RecentHour(recent_events, last.now))),
                  <<5 * baseline_metrics.requests_per_hour[1],
                    baseline_metrics.requests_per_hour[2]>>))

\* The last query or cleanup call was made in the state the engine is in:
\* the clock has not moved and nothing has been ingested since.
ReplyIsCurrent == reply.now = clock /\ reply.seen = Len(ingested)

\* C11: recentAlerts(hours, severity?) returns exactly the alerts of the
\* in-memory list with timestamp > now - hours * 3600 and, when a severity is
\* given, with that severity: each of them, as often as the list holds it,
\* and no other.
C11_RecentAlertsExact ==
    LET Qualifies(a) ==
            /\ a.timestamp > reply.now - reply.hours * 3600
            /\ reply.severity # "" => a.severity = reply.severity
    IN  (reply.op = "alerts" /\ ReplyIsCurrent) =>
            /\ \A j \in 1..Len(reply.alerts) :
                   Qualifies(reply.alerts[j]) /\ reply.alerts[j] \in Range(alerts)
            /\ \A i \in 1..Len(alerts) :
                   Qualifies(alerts[i]) => alerts[i] \in Range(reply.alerts)
            /\ Len(reply.alerts) =
                   Cardinality({i \in 1..Len(alerts) : Qualifies(alerts[i])})

\* C11 witness: a query with a severity returned alerts and left out one of
\* that severity whose timestamp is exactly now - hours * 3600.
C11_BoundaryAlertLeftOut ==
    /\ reply.op = "alerts"
    /\ ReplyIsCurrent
    /\ reply.severity # ""
    /\ reply.alerts # <<>>
    /\ \E i \in 1..Len(alerts) :
          /\ alerts[i].severity = reply.severity
          /\ alerts[i].timestamp = reply.now - reply.hours * 3600
          /\ alerts[i] \notin Range(reply.alerts)

\* C12: currentStats reports system_health critical if the list holds a
\* critical alert of the last hour, otherwise degraded if it holds a high
\* one, otherwise warning if it holds more than 5 alerts of the last hour,
\* otherwise healthy, in every state.
C12_HealthReported ==
    LET recent == SelectSeq(alerts, LAMBDA a : a.timestamp > reply.now - 3600)
        Has(sev) == \E i \in 1..Len(recent) : recent[i].severity = sev
    IN  (reply.op = "stats" /\ ReplyIsCurrent) =>
            /\ reply.outcome = "returned"
            /\ reply.stats.system_health =
                   IF Has("critical") THEN "critical"
                   ELSE IF Has("high") THEN "degraded"
                   ELSE IF Len(recent) > 5 THEN "warning"
                   ELSE "healthy"

\* C13: a currentStats call that follows another with the clock unchanged
\* and no ingest between them ends as that one did and returns the same
\* system_health, total_events_tracked, events_last_hour and alerts_last_24h.
C13_StatsTwiceSame ==
    (reply.op = "stats" /\ reply.repeats) =>
        /\ reply.outcome = reply.before.outcome
        /\ reply.stats.system_health = reply.before.stats.system_health
        /\ reply.stats.total_events_tracked = reply.before.stats.total_events_tracked
        /\ reply.stats.events_last_hour = reply.before.stats.events_last_hour
        /\ reply.stats.alerts_last_24h = reply.before.stats.alerts_last_24h

\* C13 witness: the second of two stats calls returned, on an engine that
\* holds events and alerts of the last hour and is not healthy.
C13_SecondCallReturned ==
    /\ reply.op = "stats"
    /\ reply.repeats
    /\ reply.outcome = "returned"
    /\ reply.stats.system_health \in {"critical", "degraded", "warning"}
    /\ reply.stats.events_last_hour > 0
    /\ reply.stats.alerts_last_24h > 0

\* The records of rows with timestamp >= cutoff, in order.
NotOlder(rows, cutoff) == SelectSeq(rows, LAMBDA r : ~(r.timestamp < cutoff))

\* C14, one call: a cleanup(daysToKeep) that reaches the store leaves in the
\* event table and in the alert table exactly the records that do not have
\* timestamp < now - daysToKeep * 24 h; so after cleanup(0) no event older
\* than now is left and cleanup(9999) deletes nothing.  A call that cannot
\* reach the store deletes nothing.
C14_CleanupStep ==
    reply'.op = "cleanup" =>
        LET cutoff == clock - reply'.days * 24 * 3600
        IN  /\ db_up =>
                /\ db_events' = NotOlder(db_events, cutoff)
                /\ db_alerts' = NotOlder(db_alerts, cutoff)
            /\ ~db_up => (db_events' = db_events /\ db_alerts' = db_alerts)
            /\ (db_up /\ reply'.days = 0) =>
                   \A i \in 1..Len(db_events') : db_events'[i].timestamp >= clock
            /\ reply'.days = 9999 =>
                   (db_events' = db_events /\ db_alerts' = db_alerts)

\* C14: cleanup(daysToKeep) deletes from the persisted events and alerts
\* exactly the records with timestamp < now - daysToKeep * 24 h and keeps
\* every other record.
C14_CleanupDeletesExactlyOld == [][C14_CleanupStep]_vars

\* C14 witness: a cleanup deleted events and alerts and kept an event whose
\* timestamp is exactly the cutoff.
C14_DeletedOldKeptBoundary ==
    /\ reply.op = "cleanup"
    /\ reply.store_up
    /\ reply.events_deleted > 0
    /\ reply.alerts_deleted > 0
    /\ \E i \in 1..Len(db_events) :
          db_events[i].timestamp = reply.now - reply.days * 24 * 3600

\* s is an initial part of t.
IsPrefix(s, t) == Len(s) <= Len(t) /\ SubSeq(t, 1, Len(s)) = s

\* The number of events of the given actor among those ingested.
Ingested(field, actor) ==
    Cardinality({i \in 1..Len(ingested) : ingested[i][field] = actor})

\* C15, the store: no step takes a record out of a table unless a cleanup is
\* in progress and the record's timestamp is below its cutoff; what the
\* threads write meanwhile is added behind the records that stay.
C15_StoreStep ==
    LET Stays(rows) == IF cleaner.pc = "deleting"
                       THEN NotOlder(rows, cleaner.cutoff) ELSE rows
    IN  /\ IsPrefix(Stays(db_events), Stays(db_events'))
        /\ IsPrefix(Stays(db_alerts), Stays(db_alerts'))

\* C15, the memory, one step: a step of cleanup changes no window, no counter
\* and not the alert list.
C15_MemoryStep ==
    cleaner' # cleaner => (Memory' = Memory /\ alerts' = alerts)

\* C15, the memory: with cleanups among the calls the windows hold the last
\* events ingested and the counters count them, as without.
C15_MemoryAsWithout ==
    /\ recent_events = LastN(ingested, window_size)
    /\ recent_response_times =
           LastN(Column(ingested, "processing_time"), window_size)
    /\ \A u \in Users : user_request_counts[u] = Ingested("user_id", u)
    /\ \A i \in Ips : ip_request_counts[i] = Ingested("ip_address", i)

\* C15: in every interleaving of cleanup with concurrent ingest calls no
\* record with timestamp >= the cutoff is lost from the store, and windows,
\* counters and alert list are what they are without the cleanup.
C15_CleanupLosesNothingRecent ==
    /\ [][C15_StoreStep /\ C15_MemoryStep]_vars
    /\ []C15_MemoryAsWithout

\* C15 witness: a cleanup ended, having deleted a stored event, after a call
\* had appended its event and before that call ended; the event of the call,
\* whose timestamp is the cutoff, is in the store.
C15_CleanedDuringIngest ==
    /\ reply.op = "cleanup"
    /\ reply.events_deleted > 0
    /\ reply.seen = Len(ingested)
    /\ \E t \in Threads :
          /\ pc[t] = "persisted"
          /\ call[t] \in Range(db_events)
          /\ call[t].timestamp = reply.now - reply.days * 24 * 3600

\* C16: an ingest whose store writes fail still appends its event to the
\* windows, counts its user and address, and runs the full detector set to
\* the end; the alerts it raises are in the in-memory list.
C16_FailOpen ==
    (last.valid /\ ~last.store_up) =>
        /\ recent_events[Len(recent_events)] = last.event
        /\ recent_response_times[Len(recent_response_times)]
               = last.event.processing_time
        /\ user_request_counts[last.event.user_id]
               = Ingested("user_id", last.event.user_id)
        /\ ip_request_counts[last.event.ip_address]
               = Ingested("ip_address", last.event.ip_address)
        /\ last.outcome = "returned"
        /\ \A i \in 1..Len(last.raised) : last.raised[i] \in Range(alerts)

\* The payload of the event carries a credit_score that is a number.
HasNumericScore(e) == HasScore(e) /\ IsNumber(e.response_data.credit_score)

\* C17: a payload without a credit_score, or with one that is no number,
\* leaves the score window as it was, so that the window holds the last
\* numeric scores ingested and nothing else; the call still appends the
\* event to the events and latency windows and runs its detectors to the end.
C17_MalformedScoreIgnored ==
    /\ recent_scores =
           LastN(SelectSeq(ScoresOf(ingested), IsNumber), window_size)
    /\ (last.valid /\ ~HasNumericScore(last.event) /\ window_size > 0) =>
           /\ recent_events[Len(recent_events)] = last.event
           /\ recent_response_times[Len(recent_response_times)]
                  = last.event.processing_time
           /\ last.outcome = "returned"

\* The engine has just been constructed: nothing has been ingested and the
\* clock has not moved since its baseline was computed, so that the store is
\* what _load_baseline_metrics found.
JustConstructed == ingested = <<>> /\ baseline_metrics.last_updated = clock

\* C18: when the store cannot be read, or holds no event with timestamp
\* > now - 7 days, the baseline computed is exactly the default one:
\* avg_processing_time 0.5 s, std_processing_time 0.2 s, avg_score 500,
\* std_score 150, requests_per_hour 10 (here in tenths of a second and tens
\* of points, the deviations as their squares).
C18_DefaultBaseline ==
    (/\ JustConstructed
     /\ \/ ~db_up
        \/ \A i \in 1..Len(db_events) :
               ~(db_events[i].timestamp > clock - 7 * 24 * 3600)) =>
        /\ baseline_metrics.avg_processing_time = <<5, 1>>
        /\ baseline_metrics.std_processing_time = [sqrt_of |-> <<2 * 2, 1>>]
        /\ baseline_metrics.avg_score = <<50, 1>>
        /\ baseline_metrics.std_score = [sqrt_of |-> <<15 * 15, 1>>]
        /\ baseline_metrics.requests_per_hour = <<10, 1>>

\* C18 witness: an engine constructed at a restart, on a readable store
\* that holds events, none of them of the last seven days, has the default
\* baseline.
C18_RestartOnOldEvents ==
    /\ JustConstructed
    /\ clock > 0
    /\ db_up
    /\ db_events # <<>>
    /\ \E i \in 1..Len(db_events) : db_events[i].timestamp = 0 - 7 * 24 * 3600
    /\ baseline_metrics.requests_per_hour = <<10, 1>>

\* C19: when a detector compares the mean of a window with the baseline, the
\* baseline's standard deviation is above zero: std_processing_time for the
\* response-time detector (10 samples or more), std_score for the
\* score-shift detector (20 samples or more).
C19_StdFloored ==
    (last.valid /\ Len(recent_events) >= alert_threshold) =>
        /\ Len(recent_response_times) >= 10 =>
               baseline_metrics.std_processing_time.sqrt_of[1] > 0
        /\ Len(recent_scores) >= 20 =>
               baseline_metrics.std_score.sqrt_of[1] > 0

\* C20: for a non-empty list of N values and a percentile p the helper
\* returns the element at index k = min(floor(N * p / 100), N - 1) of the
\* list sorted ascending, that is the value of the list with at most k
\* values below it and more than k values not above it, whatever the order
\* of the list; the 95th percentile of ten samples is the largest of them.
C20_PercentileIsOrderStatistic ==
    LET data == reply.data
        N    == Len(data)
        k    == IF (N * reply.percentile) \div 100 < N - 1
                THEN (N * reply.percentile) \div 100 ELSE N - 1
        v    == reply.value
    IN  reply.op = "percentile" =>
            /\ v \in Range(data)
            /\ Cardinality({i \in 1..N : data[i] < v}) <= k
            /\ Cardinality({i \in 1..N : data[i] <= v}) > k
            /\ (N = 10 /\ reply.percentile = 95) =>
                   \A i \in 1..N : data[i] <= v

\* C20 witness: the 95th percentile of ten samples that do not come in
\* ascending order has been taken, and it is not the last of the list.
C20_NinetyFifthOfTen ==
    /\ reply.op = "percentile"
    /\ Len(reply.data) = 10
    /\ reply.percentile = 95
    /\ reply.data[1] > reply.data[2]
    /\ reply.value # reply.data[10]
    /\ reply.value = 10

\* Whether the call c handed an alert of the type to _trigger_alert.
RaisedIn(c, type) ==
    \E i \in 1..Len(c.raised) : c.raised[i].alert_type = type

(* C21: once an ingest from a user_id has raised a repeat_user_requests    *)
(* alert, the next ingest from that user_id raises one too, and so every   *)
(* later one; likewise for a source address and repeat_ip_requests.        *)
C21_RepeatStep ==
    (ingested' # ingested /\ last.valid) =>
        /\ ( /\ RaisedIn(last, "repeat_user_requests")
             /\ last'.event.user_id = last.event.user_id )
           => RaisedIn(last', "repeat_user_requests")
        /\ ( /\ RaisedIn(last, "repeat_ip_requests")
             /\ last'.event.ip_address = last.event.ip_address )
           => RaisedIn(last', "repeat_ip_requests")

C21_RepeatAlertsNeverHeal == [][C21_RepeatStep]_vars

(* C22: in every reachable state the counter of each user_id and of each   *)
(* source address is the number of events ingested with it since the       *)
(* engine was constructed, whatever was evicted, raised, queried or        *)
(* cleaned up meanwhile.                                                   *)
C22_CountersCountIngests ==
    /\ \A u \in Users : user_request_counts[u] = Ingested("user_id", u)
    /\ \A i \in Ips : ip_request_counts[i] = Ingested("ip_address", i)

\* Two events of one user were ingested, the first was evicted, an alert was
\* raised, and a cleanup has emptied the table of the events.
C22_CountedPastEviction ==
    /\ \E u \in Users : user_request_counts[u] = 2
    /\ Len(recent_events) = 1
    /\ alerts # <<>>
    /\ reply.op = "cleanup"
    /\ reply.events_deleted > 0

\* C23, one step: a step that changes the baseline is the construction of a
\* monitor (empty windows, counters and alert list), and the baseline it
\* leaves is the whole result of _load_baseline_metrics on the store as it
\* is then.
C23_BaselineStep ==
    baseline_metrics' # baseline_metrics =>
        /\ ingested' = <<>>
        /\ last' = NoCall
        /\ alerts' = <<>>
        /\ baseline_metrics' = LoadBaselineMetrics(db_events, clock, db_up')

(* C23: after construction the baseline is static: ingest, alert raising,  *)
(* the three queries and cleanup leave every field of it unchanged; it     *)
(* changes only by being recomputed, all fields together.                  *)
C23_BaselineStatic == [][C23_BaselineStep]_vars

\* A day after the construction two events have been ingested, alerts were
\* raised and the store has been cleaned up, and the baseline is still the
\* one computed from the stored events at the construction.
C23_OldBaselineKept ==
    /\ clock = Day
    /\ baseline_metrics.last_updated = 0
    /\ baseline_metrics # DefaultBaseline(0)
    /\ Len(ingested) = MaxService
    /\ alerts # <<>>
    /\ reply.op = "cleanup"
    /\ db_events = <<>>

\* The rows of the table stamped within the seven days before now.
InLastWeek(rows, now) == SelectSeq(rows, LAMBDA r : r.timestamp > now - Week)

(* C24: once the baseline has been computed from a store that holds events *)
(* of the last 7 days, its requests_per_hour is the number of those events *)
(* divided by 168, however many they are.                                  *)
C24_RateIsCountPerHour ==
    (JustConstructed /\ db_up /\ InLastWeek(db_events, clock) # <<>>) =>
        baseline_metrics.requests_per_hour[1] * HoursPerWeek =
            Len(InLastWeek(db_events, clock)) * baseline_metrics.requests_per_hour[2]

\* The alert types in the order in which _detect_anomalies runs the checks
\* that raise them.
DetectorOrder ==
    << "response_time_spike", "score_distribution_shift", "traffic_spike",
       "high_error_rate", "repeat_user_requests", "repeat_ip_requests" >>

Position(type) == CHOOSE k \in 1..Len(DetectorOrder) : DetectorOrder[k] = type

(* C25: the alerts one ingest call raises are of different types and       *)
(* follow one another in the order of the detectors, and they are the end  *)
(* of the in-memory alert list, in that order, when the call is over.      *)
C25_OnePerTypeInOrder ==
    last.valid =>
        /\ \A i, j \in 1..Len(last.raised) :
             i < j => Position(last.raised[i].alert_type)
                        < Position(last.raised[j].alert_type)
        /\ LastN(alerts, Len(last.raised)) = last.raised

\* One call has raised alerts of four types.
C25_FourTypesAtOnce ==
    /\ last.valid
    /\ Len(last.raised) >= 4
    /\ RaisedIn(last, "score_distribution_shift")
    /\ RaisedIn(last, "repeat_user_requests")

\* C26, one step: a step in which a query call ends leaves the windows, the
\* counters, the alert list, the baseline and both tables as they were.
C26_QueryStep ==
    (reply' # reply /\ reply'.op \in {"stats", "alerts", "summary"}) =>
        UNCHANGED <<recent_events, recent_scores, recent_response_times,
                    user_request_counts, ip_request_counts, alerts,
                    baseline_metrics, db_events, db_alerts>>

(* C26: get_monitoring_stats, get_recent_alerts and                        *)
(* generate_weekly_summary change nothing: the three windows, the actor    *)
(* counters, the in-memory alert list, the baseline and both tables are    *)
(* the same after the call as before it, from every reachable state.       *)
C26_QueriesChangeNothing == [][C26_QueryStep]_vars

\* A weekly summary has reported stored events and alerts of an engine whose
\* window, counters and alert list are not empty.
C26_SummaryOfBusyEngine ==
    /\ reply.op = "summary"
    /\ ~reply.summary.error
    /\ reply.summary.total_requests > 0
    /\ reply.summary.total_alerts > 0
    /\ recent_events # <<>>
    /\ alerts # <<>>
    /\ \E u \in Users : user_request_counts[u] > 0

\* The places of a log_scoring_event call, in the order it passes them.
CallOrder == <<"idle", "waiting", "locked", "appended", "persisted", "idle">>

\* C27, one step of the call of thread t.
C27_CallStep(t) ==
    /\ pc'[t] # pc[t] =>
         \E k \in 1..(Len(CallOrder) - 1) :
             pc[t] = CallOrder[k] /\ pc'[t] = CallOrder[k + 1]
    \* the append: the event enters the windows and counters; nothing is
    \* written yet and no alert is raised
    /\ pc'[t] = "appended" /\ pc[t] # "appended" =>
         /\ ingested' = Append(ingested, call[t])
         /\ user_request_counts'[call[t].user_id]
              = user_request_counts[call[t].user_id] + 1
         /\ UNCHANGED <<db_events, alerts, db_alerts>>
    \* the write of the event: after the append, before any alert
    /\ pc'[t] = "persisted" /\ pc[t] # "persisted" =>
         /\ ingested[Len(ingested)] = call[t]
         /\ db_up => db_events' = Append(db_events, call[t])
         /\ UNCHANGED <<Memory, alerts, db_alerts>>
    \* the detectors: the event is in the windows and in the table, and when
    \* the call ends every alert it raised is in the list and in the table
    /\ pc[t] = "persisted" /\ pc'[t] = "idle" =>
         /\ ingested[Len(ingested)] = call[t]
         /\ db_up => call[t] \in Range(db_events)
         /\ last'.event = call[t]
         /\ \A i \in 1..Len(last'.raised) :
              /\ last'.raised[i] \in Range(alerts')
              /\ db_up => LastN(db_alerts', Len(last'.raised)) = last'.raised
         /\ Len(db_alerts') = Len(db_alerts) + (IF db_up THEN Len(last'.raised) ELSE 0)
         /\ UNCHANGED <<Memory, db_events>>

(* C27: within one ingest call the event is first appended to the windows  *)
(* and counters, then written to the store, then the detectors run; every  *)
(* alert they produce is in the in-memory list and written to the alert    *)
(* store when the call ends, absent a write failure.                       *)
C27_AppendPersistDetect == [][\A t \in Threads : C27_CallStep(t)]_vars

\* A call has ended with an alert in the list and in the table, and the next
\* call has appended its event and not yet written it.
C27_NextCallAppended ==
    /\ last.valid
    /\ last.raised # <<>>
    /\ last.raised[1] \in Range(alerts)
    /\ last.raised[1] \in Range(db_alerts)
    /\ \E t \in Threads :
         /\ pc[t] = "appended"
         /\ call[t] \notin Range(db_events)
         /\ call[t] \in Range(recent_events)

(* C28: a get_monitoring_stats call that runs while events are ingested    *)
(* never fails because a window changed under it, and what it reports is   *)
(* what it would report in one state between two whole ingest calls.       *)
C28_StatsSeeWholeIngests ==
    reply.op = "stats" =>
        /\ reply.error # "RuntimeError"
        /\ [outcome |-> reply.outcome, stats |-> reply.stats] \in reply.between

\* C29: get_monitor constructs at most one ScoringMonitor, every caller
\* receives the same one, and so every event logged through
\* log_scoring_request is in the same monitor.
C29_OneMonitor ==
    /\ Len(monitors) <= 1
    /\ \A t, u \in Threads :
           getter[t].got # NoMonitor /\ getter[u].got # NoMonitor
               => getter[t].got = getter[u].got
    /\ Cardinality({i \in 1..Len(monitors) : monitors[i] > 0}) <= 1

\* C30: a check_rate_limit call that rejects leaves the recorded request
\* counts of the caller's main window and burst window as they were.
C30_RejectedConsumesNothing ==
    checked.valid /\ ~checked.allowed => checked.after = checked.before

====
